---- MODULE Spec2Model ----
(***************************************************************************)
(* Model of the vm-device / vm-allocator sources:                          *)
(*   - AddressAllocator (vm-allocator/src/address.rs)                      *)
(*   - IdAllocator      (vm-allocator/src/id.rs)                           *)
(*   - SystemAllocator  (vm-allocator/src/system.rs)                       *)
(*   - DeviceManager    (src/device_manager.rs)                            *)
(* Each component has its own specification; the variables of the other    *)
(* components stay at their initial value:                                 *)
(*   SpecAddr  allocate and free on an AddressAllocator                    *)
(*   SpecWide  allocate and free, with requests of 1, 4 or 7 addresses,    *)
(*             on regions of eight addresses or at the top of the domain,  *)
(*             no wildcard placement falling below address 0               *)
(*   SpecStack wildcard allocations on an aligned, empty AddressAllocator  *)
(*   SpecNew   AddressAllocator::new over the whole address domain         *)
(*   SpecId    allocate and free on an IdAllocator                         *)
(*   SpecSys   SystemAllocator                                             *)
(*   Spec      DeviceManager                                               *)
(*   SpecCall  DeviceManager, the arguments of register_device recorded    *)
(***************************************************************************)
EXTENDS Integers, Sequences, FiniteSets, TLC

VARIABLES
    addr_base,        \* AddressAllocator.base
    addr_end,         \* AddressAllocator.end (inclusive last managed address)
    addr_alignment,   \* AddressAllocator.alignment
    addr_ranges,      \* AddressAllocator.ranges : start |-> size (BTreeMap)
    addr_ret,         \* what the last AddressAllocator call returned
    addr_op,          \* which call that was
    addr_new,         \* history: the arguments of the AddressAllocator::new
                      \* call and whether it returned Some (SpecNew only)
    debug_assertions, \* build profile: TRUE = overflow checks panic, FALSE = wrap
    id_start,         \* IdAllocator.start
    id_end,           \* IdAllocator.end
    id_used,          \* IdAllocator.used : ascending sequence of ids
    id_ret,           \* what the last IdAllocator call returned
    id_op,            \* which call that was
    id_live,          \* history: ids handed out by allocate and not freed since
    devices,          \* DeviceManager.devices : name |-> descriptor
    mmio_bus,         \* DeviceManager.mmio_bus : start |-> [size, dev]
    pio_bus,          \* DeviceManager.pio_bus  : start |-> [size, dev]
    dm_last,          \* the last DeviceManager call and what it returned
    dm_snap,          \* history: registry and maps before an unregister that
                      \* directly followed a successful registration
    dm_calls,         \* history: number of register_device calls made
    set_resources_calls, \* history: how often the last DeviceManager call
                      \* invoked Device::set_resources
    dm_args,          \* history: the arguments of the last register_device
                      \* call (recorded under SpecCall only)
    addr_alloc,       \* SystemAllocator.addr_alloc : name |-> address allocator
    id_alloc,         \* SystemAllocator.id_alloc : name |-> id allocator
    sys_last,         \* the last SystemAllocator call and what it returned
    sys_ids           \* history: name |-> the ids allocate_id returned for it

addr_vars == <<addr_base, addr_end, addr_alignment, addr_ranges, addr_ret,
               addr_op, addr_new, debug_assertions>>
id_vars   == <<id_start, id_end, id_used, id_ret, id_op, id_live>>
dm_vars   == <<devices, mmio_bus, pio_bus, dm_last, dm_snap, dm_calls, dm_args,
               set_resources_calls>>
sys_vars  == <<addr_alloc, id_alloc, sys_last, sys_ids>>
vars      == <<addr_vars, id_vars, dm_vars, sys_vars>>

(***************************************************************************)
(* Bounds of the model.                                                    *)
(***************************************************************************)
MaxBase       == 3    \* AddressAllocator::new is tried with base in 0..MaxBase
MaxRegionSize == 5    \* ... and with size in 0..MaxRegionSize
MaxReqSize    == 3    \* allocate/free are called with size in 0..MaxReqSize
MaxStackSize  == 8    \* size of the regions that see wildcard requests only

(***************************************************************************)
(* Helpers.                                                                *)
(***************************************************************************)
Min(S) == CHOOSE x \in S : \A y \in S : x <= y

RECURSIVE SortSet(_)
\* the keys of a BTreeMap in iteration (ascending) order
SortSet(S) == IF S = {} THEN << >> ELSE <<Min(S)>> \o SortSet(S \ {Min(S)})

\* f with key k removed / with key k bound to v
MapRemove(f, k) == [x \in (DOMAIN f) \ {k} |-> f[x]]
MapPut(f, k, v) == [x \in (DOMAIN f) \cup {k} |-> IF x = k THEN v ELSE f[x]]

(***************************************************************************)
(* The address domain.  GuestAddress and GuestUsize are u64; the model     *)
(* keeps the arithmetic of a fixed-width unsigned integer on AddrWidth     *)
(* bits.                                                                   *)
(***************************************************************************)
AddrWidth == 4
AddrModulus == 2 ^ AddrWidth
MaxAddr == AddrModulus - 1
Addrs == 0 .. MaxAddr

None == -1      \* Option::None of an address, a size or an id

\* Address::checked_add : None on overflow
checked_add(a, b) == IF a + b > MaxAddr THEN None ELSE a + b

\* u64::is_power_of_two
is_power_of_two(n) == \E k \in 0 .. AddrWidth - 1 : n = 2 ^ k

\* Results of the allocator calls.
AOk(a)   == [kind |-> "Ok", addr |-> a]
AErr(e)  == [kind |-> e, addr |-> 0]
APanic   == [kind |-> "Panic", addr |-> 0]
AUnit    == [kind |-> "Unit", addr |-> 0]

\* Address::unchecked_sub / unchecked_add : plain `-` / `+` on u64, which
\* panics when overflow checks are compiled in and wraps otherwise.
\* The result is None when the operation panics.
unchecked_sub(a, b) ==
    IF a >= b THEN a - b
    ELSE IF debug_assertions THEN None ELSE (a - b) % AddrModulus

unchecked_add(a, b) ==
    IF a + b <= MaxAddr THEN a + b
    ELSE IF debug_assertions THEN None ELSE (a + b) % AddrModulus

(***************************************************************************)
(* AddressAllocator                                                        *)
(***************************************************************************)
\* Option::None of an AddressAllocator
NoAllocator == [base |-> 0, end |-> 0, alignment |-> 0, ranges |-> << >>]

\* New as it would be if base + size wrapped around instead of being checked
New_wrapping(base, size, align_size) ==
    IF size = 0 THEN NoAllocator
    ELSE LET bound     == (base + size) % AddrModulus
             alignment == IF align_size = None THEN 4 ELSE align_size
         IN  IF ~is_power_of_two(alignment) \/ alignment = 0 THEN NoAllocator
             ELSE [base |-> base, end |-> (bound - 1) % AddrModulus,
                   alignment |-> alignment, ranges |-> (bound :> 0)]

\* AddressAllocator::new : NoAllocator, or the fields of the new allocator
New(base, size, align_size) ==
    IF size = 0 THEN NoAllocator
    ELSE IF checked_add(base, size) = None THEN NoAllocator
    ELSE LET bound     == checked_add(base, size)
             alignment == IF align_size = None THEN 4 ELSE align_size
         IN  IF ~is_power_of_two(alignment) \/ alignment = 0 THEN NoAllocator
             ELSE [base |-> base, end |-> bound - 1, alignment |-> alignment,
                   ranges |-> (bound :> 0)]

\* no AddressAllocator::new call recorded
NoNewCall == [called |-> FALSE, base |-> 0, size |-> 0, align_size |-> None,
              some |-> FALSE]

\* the call AddressAllocator::new(base, size, align_size) and what it returned
new(base, size, align_size) ==
    LET a == New(base, size, align_size)
    IN  /\ addr_new' = [called |-> TRUE, base |-> base, size |-> size,
                        align_size |-> align_size, some |-> a # NoAllocator]
        /\ addr_base' = a.base
        /\ addr_end' = a.end
        /\ addr_alignment' = a.alignment
        /\ addr_ranges' = a.ranges
        /\ addr_ret' = AUnit
        /\ addr_op' = "new"
        /\ UNCHANGED debug_assertions

\* align_address as it would be if the adjustment were left out
align_address_unadjusted(address) == checked_add(address, 0)

\* AddressAllocator::align_address : round up to the alignment, None on overflow
align_address(address) ==
    LET align_adjust == IF address % addr_alignment # 0
                        THEN addr_alignment - (address % addr_alignment)
                        ELSE 0
    IN  checked_add(address, align_adjust)

RECURSIVE available_range_loop(_, _, _, _, _)
\* the `for (address, size) in self.ranges.iter()` loop of available_range
available_range_loop(keys, i, prev_end_address, aligned_address, req_size) ==
    IF i > Len(keys) THEN AErr("Overflow")
    ELSE LET address == keys[i]
             size    == addr_ranges[address]
         IN  IF aligned_address <= address
             THEN IF prev_end_address > aligned_address THEN AErr("Overlap")
                  ELSE IF unchecked_sub(address, aligned_address) < req_size
                       THEN AErr("Overlap")
                       ELSE AOk(aligned_address)
             ELSE LET next_prev == unchecked_add(address, size)
                  IN  IF next_prev = None THEN APanic
                      ELSE available_range_loop(keys, i + 1, next_prev,
                                                aligned_address, req_size)

\* AddressAllocator::available_range
available_range(req_address, req_size) ==
    LET aligned_address == align_address(req_address)
    IN  IF aligned_address = None THEN AErr("Overflow")
        ELSE IF aligned_address # req_address THEN AErr("UnalignedAddress")
        ELSE IF aligned_address > addr_end \/ aligned_address < addr_base
             THEN AErr("Overflow")
        ELSE available_range_loop(SortSet(DOMAIN addr_ranges), 1, addr_base,
                                  aligned_address, req_size)

RECURSIVE first_available_range_loop_bottom(_, _, _, _)
\* first_available_range's loop as it would be if it placed the range at the
\* bottom of the gap it found
first_available_range_loop_bottom(keys, i, prev_end_address, req_size) ==
    IF i > Len(keys) THEN AErr("Overflow")
    ELSE LET address        == keys[i]
             size           == addr_ranges[address]
             prev_end_align == align_address(prev_end_address)
         IN  IF prev_end_align = None THEN AErr("Overflow")
             ELSE LET gap == unchecked_sub(address, prev_end_align)
                  IN  IF gap = None THEN APanic
                      ELSE IF gap >= req_size THEN AOk(prev_end_align)
                      ELSE LET next_prev == unchecked_add(address, size)
                           IN  IF next_prev = None THEN APanic
                               ELSE first_available_range_loop_bottom(keys, i + 1,
                                                        next_prev, req_size)

RECURSIVE first_available_range_loop(_, _, _, _)
\* the `for (address, size) in self.ranges.iter()` loop of first_available_range
first_available_range_loop(keys, i, prev_end_address, req_size) ==
    IF i > Len(keys) THEN AErr("Overflow")
    ELSE LET address        == keys[i]
             size           == addr_ranges[address]
             prev_end_align == align_address(prev_end_address)
         IN  IF prev_end_align = None THEN AErr("Overflow")
             ELSE LET gap == unchecked_sub(address, prev_end_align)
                  IN  IF gap = None THEN APanic
                      ELSE IF gap >= req_size
                      THEN LET req_align == align_address(req_size)
                           IN  IF req_align = None THEN AErr("Overflow")
                               ELSE LET low == unchecked_sub(address, req_align)
                                    IN  IF low = None THEN APanic
                                        ELSE IF align_address(low) = None
                                             THEN AErr("Overflow")
                                             ELSE AOk(align_address(low))
                      ELSE LET next_prev == unchecked_add(address, size)
                           IN  IF next_prev = None THEN APanic
                               ELSE first_available_range_loop(keys, i + 1,
                                                        next_prev, req_size)

\* AddressAllocator::first_available_range
first_available_range(req_size) ==
    first_available_range_loop(SortSet(DOMAIN addr_ranges), 1, addr_base, req_size)

\* the address AddressAllocator::allocate computes, or the error it returns
allocate_result(address, size) ==
    IF size = 0 THEN AErr("NullRequest")
    ELSE IF address # None THEN available_range(address, size)
    ELSE first_available_range(size)

\* AddressAllocator::allocate(address, size)
allocate(address, size) ==
    LET r == allocate_result(address, size)
    IN  /\ addr_ret' = r
        /\ addr_op' = IF address = None THEN "allocate_any" ELSE "allocate_at"
        /\ addr_ranges' = IF r.kind = "Ok" THEN MapPut(addr_ranges, r.addr, size)
                          ELSE addr_ranges
        /\ UNCHANGED <<addr_base, addr_end, addr_alignment, addr_new, debug_assertions>>

\* the range map AddressAllocator::free leaves behind
free_ranges(address, size) ==
    IF address = addr_end \/ size = 0 THEN addr_ranges
    ELSE IF address \in DOMAIN addr_ranges /\ addr_ranges[address] = size
         THEN MapRemove(addr_ranges, address)
         ELSE addr_ranges

\* AddressAllocator::free(address, size)
free(address, size) ==
    /\ addr_ranges' = free_ranges(address, size)
    /\ addr_ret' = AUnit
    /\ addr_op' = "free"
    /\ UNCHANGED <<addr_base, addr_end, addr_alignment, addr_new, debug_assertions>>

(***************************************************************************)
(* IdAllocator.  Ids are u32; the model keeps the arithmetic of a          *)
(* fixed-width unsigned integer on IdWidth bits.                           *)
(***************************************************************************)
IdWidth == 3
MaxId == 2 ^ IdWidth - 1      \* u32::MAX
Ids == 0 .. MaxId

\* the names a Resource<V = u32> request can report; Id reports "id"
ResNames == {"id", "irq"}

IOk(v)  == [kind |-> "Ok", id |-> v]
IErr(e) == [kind |-> e, id |-> 0]
IUnit   == [kind |-> "Unit", id |-> 0]

\* IdAllocator::new : performs no validation
IdNew(start, end) == [start |-> start, end |-> end, used |-> << >>]

\* IdResourceAllocator::name for IdAllocator
allocator_name == "id"

RECURSIVE first_usable_number_loop_strict(_, _)
\* first_usable_number_loop as it would be with `previous < self.end` as the
\* test after the loop
first_usable_number_loop_strict(i, previous) ==
    IF i > Len(id_used)
    THEN IF previous < id_end THEN IOk(previous) ELSE IErr("Overflow")
    ELSE IF id_used[i] > previous THEN IOk(previous)
         ELSE IF id_used[i] + 1 > MaxId THEN IErr("Overflow")
              ELSE first_usable_number_loop_strict(i + 1, id_used[i] + 1)

RECURSIVE first_usable_number_loop(_, _)
\* the `for iter in self.used.iter()` loop of first_usable_number and the
\* test after it
first_usable_number_loop(i, previous) ==
    IF i > Len(id_used)
    THEN IF previous <= id_end THEN IOk(previous) ELSE IErr("Overflow")
    ELSE IF id_used[i] > previous THEN IOk(previous)
         ELSE IF id_used[i] + 1 > MaxId THEN IErr("Overflow")   \* checked_add(1)
              ELSE first_usable_number_loop(i + 1, id_used[i] + 1)

\* IdAllocator::first_usable_number
first_usable_number ==
    IF id_used = << >> THEN IOk(id_start)
    ELSE first_usable_number_loop(1, id_start)

\* Option::None of a resource request; a request Some(res) carries what
\* res.name() and res.raw_value() report
NoResource == [some |-> FALSE, name |-> "id", value |-> 0]
SomeResource(n, v) == [some |-> TRUE, name |-> n, value |-> v]

\* id_allocate_result as it would be without the search for a used value
id_allocate_result_unsearched(resource) ==
    IF resource.some
    THEN IF resource.name # allocator_name THEN IErr("Invalid")
         ELSE IF resource.value < id_start \/ resource.value > id_end
              THEN IErr("OutofScope")
              ELSE IOk(resource.value)
    ELSE first_usable_number

\* the id IdAllocator::allocate picks, or the error it returns
id_allocate_result(resource) ==
    IF resource.some
    THEN IF resource.name # allocator_name THEN IErr("Invalid")
         ELSE IF resource.value < id_start \/ resource.value > id_end
              THEN IErr("OutofScope")
         ELSE IF \E i \in 1 .. Len(id_used) : id_used[i] = resource.value
              THEN IErr("Duplicated")
              ELSE IOk(resource.value)
    ELSE first_usable_number

\* Vec::sort as it would be if the call were left out
sort_skipped(s) == s

RECURSIVE sort(_)
\* Vec::sort : ascending (insertion of the last element into the sorted rest)
sort(s) ==
    IF Len(s) <= 1 THEN s
    ELSE LET rest == sort(SubSeq(s, 1, Len(s) - 1))
             x    == s[Len(s)]
             k    == Cardinality({i \in 1 .. Len(rest) : rest[i] <= x})
         IN  SubSeq(rest, 1, k) \o <<x>> \o SubSeq(rest, k + 1, Len(rest))

\* IdAllocator::allocate(resource)
id_allocate(resource) ==
    LET r == id_allocate_result(resource)
    IN  /\ id_ret' = r
        /\ id_op' = IF resource.some THEN "allocate_some" ELSE "allocate_none"
        /\ id_used' = IF r.kind = "Ok" THEN sort(Append(id_used, r.id)) ELSE id_used
        /\ id_live' = IF r.kind = "Ok" THEN id_live \cup {r.id} ELSE id_live
        /\ UNCHANGED <<id_start, id_end>>

RECURSIVE binary_search(_, _, _, _)
\* slice::binary_search on s[lo..hi) : the index of x, or 0 when not found
binary_search(s, x, lo, hi) ==
    IF lo >= hi THEN 0
    ELSE LET mid == lo + (hi - lo) \div 2
         IN  IF s[mid] = x THEN mid
             ELSE IF s[mid] < x THEN binary_search(s, x, mid + 1, hi)
             ELSE binary_search(s, x, lo, mid)

\* Vec::remove(idx)
seq_remove(s, idx) == SubSeq(s, 1, idx - 1) \o SubSeq(s, idx + 1, Len(s))

\* the used sequence IdAllocator::free leaves behind
id_free_used(v) ==
    LET idx == binary_search(id_used, v, 1, Len(id_used) + 1)
    IN  IF idx # 0 THEN seq_remove(id_used, idx) ELSE id_used

\* IdAllocator::free(res)
id_free(v) ==
    /\ id_used' = id_free_used(v)
    /\ id_live' = id_live \ {v}
    /\ id_ret' = IUnit
    /\ id_op' = "free"
    /\ UNCHANGED <<id_start, id_end>>

(***************************************************************************)
(* SystemAllocator                                                         *)
(***************************************************************************)
MaxSysAllocs == 2   \* allocate_id is called at most MaxSysAllocs times

\* the names allocators are registered and requested under
SysNames == {"id", "mmio"}

\* the id pools handed to add_id_allocator: IdAllocator::new(Id(1), Id(100))
\* of the test taken as [1, 12], and two small pools.  The registry never
\* calls into a pool, so a pool stays as it was constructed.
SysIdPools == {IdNew(1, 12), IdNew(0, 3), IdNew(2, 2)}

\* the address allocators handed to add_addr_allocator
SysAddrAllocators == {New(0, 4, None), New(2, 2, 1)}

\* the id SystemAllocator::allocate_id returns: Id(10)
AllocatedId == 10

SysLast(op, n, ret, id) == [op |-> op, name |-> n, ret |-> ret, id |-> id]

\* add_addr_allocator as it would be if it replaced the allocator bound to
\* a name that is registered
add_addr_allocator_replacing(allocator_name_, allocator) ==
    /\ addr_alloc' = MapPut(addr_alloc, allocator_name_, allocator)
    /\ sys_last' = SysLast("add_addr_allocator", allocator_name_,
                           IF allocator_name_ \in DOMAIN addr_alloc
                           THEN "Exist" ELSE "Ok", 0)
    /\ UNCHANGED <<id_alloc, sys_ids>>

\* SystemAllocator::add_addr_allocator(allocator_name, allocator)
add_addr_allocator(allocator_name_, allocator) ==
    IF allocator_name_ \in DOMAIN addr_alloc
    THEN /\ sys_last' = SysLast("add_addr_allocator", allocator_name_, "Exist", 0)
         /\ UNCHANGED <<addr_alloc, id_alloc, sys_ids>>
    ELSE /\ addr_alloc' = MapPut(addr_alloc, allocator_name_, allocator)
         /\ sys_last' = SysLast("add_addr_allocator", allocator_name_, "Ok", 0)
         /\ UNCHANGED <<id_alloc, sys_ids>>

\* SystemAllocator::add_id_allocator(allocator_name, allocator)
add_id_allocator(allocator_name_, allocator) ==
    IF allocator_name_ \in DOMAIN id_alloc
    THEN /\ sys_last' = SysLast("add_id_allocator", allocator_name_, "Exist", 0)
         /\ UNCHANGED <<addr_alloc, id_alloc, sys_ids>>
    ELSE /\ id_alloc' = MapPut(id_alloc, allocator_name_, allocator)
         /\ sys_last' = SysLast("add_id_allocator", allocator_name_, "Ok", 0)
         /\ UNCHANGED <<addr_alloc, sys_ids>>

\* SystemAllocator::allocate_id(_allocator_id) : the argument is not read
allocate_id(allocator_id) ==
    /\ sys_last' = SysLast("allocate_id", allocator_id, "Ok", AllocatedId)
    /\ sys_ids' = [sys_ids EXCEPT ![allocator_id] = Append(@, AllocatedId)]
    /\ UNCHANGED <<addr_alloc, id_alloc>>

(***************************************************************************)
(* DeviceManager                                                           *)
(***************************************************************************)
MaxRes   == 2    \* a resource list has at most MaxRes entries
MaxCalls == 3    \* register_device is called at most MaxCalls times
MaxRecCalls == 2 \* ... at most MaxRecCalls times when its arguments are recorded

\* Arc<dyn Device> objects a caller can hold, and what Device::name reports:
\* two distinct devices report the same name
Devs == {"d1", "d2", "d3"}
NoDev == "none"     \* no device: Option::None, a routing failure
name(dev) == IF dev = "d3" THEN "b" ELSE "a"

IoTypes == {"Pio", "Mmio", "PhysicalMmio"}

\* VmResource values a caller can put in a resource list
AddressRes(addr, size, ty) == [res |-> "Address", addr |-> addr, size |-> size, ty |-> ty]
InterruptRes == [res |-> "Interrupt", addr |-> 0, size |-> 1, ty |-> "Irq"]
IdRes(id)    == [res |-> "Id", addr |-> id, size |-> 0, ty |-> "Id"]

\* the (start, size) ranges callers ask for: two MMIO ranges with the same
\* start, two that intersect with different starts, one port range whose
\* (start, size) is also an MMIO range, one physically backed range whose
\* start no other range has
MmioRanges == {<<0, 1>>, <<0, 2>>, <<1, 1>>}
PioRanges  == {<<0, 1>>}
PhysicalMmioRanges == {<<2, 1>>}
ProbeAddrs == 0 .. 2

VmResources ==
    {AddressRes(r[1], r[2], "Mmio") : r \in MmioRanges}
        \cup {AddressRes(r[1], r[2], "Pio") : r \in PioRanges}
        \cup {AddressRes(r[1], r[2], "PhysicalMmio") : r \in PhysicalMmioRanges}
        \cup {InterruptRes, IdRes(1)}

ResourceLists == UNION {[1 .. n -> VmResources] : n \in 0 .. MaxRes}

\* a dispatch-map entry: the key Range(start, size) is ordered and compared by
\* start alone, so a map holds one entry per start
BusEntry(size, dev) == [size |-> size, dev |-> dev]

\* BTreeMap::insert(Range(addr, size), dev) : a key equal to an existing key
\* (same start) keeps the old key and replaces the value
bus_insert(bus, addr, size, dev) ==
    IF addr \in DOMAIN bus
    THEN [bus EXCEPT ![addr] = BusEntry(bus[addr].size, dev)]
    ELSE MapPut(bus, addr, BusEntry(size, dev))

\* BTreeMap::remove(&Range(addr, size))
bus_remove(bus, addr) == IF addr \in DOMAIN bus THEN MapRemove(bus, addr) ELSE bus

RECURSIVE unregister_resources_mmio_only(_, _, _, _)
\* unregister_resources as it would be without the IoType::Pio arm
unregister_resources_mmio_only(resources, i, mmio, pio) ==
    IF i > Len(resources) THEN [mmio |-> mmio, pio |-> pio]
    ELSE LET r == resources[i]
         IN  IF r.res = "Address" /\ r.ty = "Mmio"
             THEN unregister_resources_mmio_only(resources, i + 1,
                                                 bus_remove(mmio, r.addr), pio)
             ELSE unregister_resources_mmio_only(resources, i + 1, mmio, pio)

RECURSIVE unregister_resources_shared(_, _, _, _)
\* unregister_resources as it would be if the IoType::Pio arm removed the
\* range from both maps
unregister_resources_shared(resources, i, mmio, pio) ==
    IF i > Len(resources) THEN [mmio |-> mmio, pio |-> pio]
    ELSE LET r == resources[i]
         IN  IF r.res = "Address" /\ r.ty = "Pio"
             THEN unregister_resources_shared(resources, i + 1,
                      bus_remove(mmio, r.addr), bus_remove(pio, r.addr))
             ELSE IF r.res = "Address" /\ r.ty = "Mmio"
             THEN unregister_resources_shared(resources, i + 1,
                      bus_remove(mmio, r.addr), pio)
             ELSE unregister_resources_shared(resources, i + 1, mmio, pio)

RECURSIVE unregister_resources(_, _, _, _)
\* DeviceManager::unregister_resources : the maps [mmio, pio] it leaves behind
unregister_resources(resources, i, mmio, pio) ==
    IF i > Len(resources) THEN [mmio |-> mmio, pio |-> pio]
    ELSE LET r == resources[i]
         IN  IF r.res = "Address" /\ r.ty = "Pio"
             THEN unregister_resources(resources, i + 1, mmio, bus_remove(pio, r.addr))
             ELSE IF r.res = "Address" /\ r.ty = "Mmio"
             THEN unregister_resources(resources, i + 1, bus_remove(mmio, r.addr), pio)
             ELSE unregister_resources(resources, i + 1, mmio, pio)

\* rollback as it would be if the failure arms returned without unregistering
rollback_skipped(resources, i, mmio, pio) == [mmio |-> mmio, pio |-> pio]

\* the `if idx > 0 { self.unregister_resources(&resources[0..idx]) }` of the
\* failure arms of register_resources (i is idx + 1)
rollback(resources, i, mmio, pio) ==
    IF i > 1 THEN unregister_resources(SubSeq(resources, 1, i - 1), 1, mmio, pio)
    ELSE [mmio |-> mmio, pio |-> pio]

RegResult(ret, i, id, maps) ==
    [ret |-> ret, idx |-> i, id |-> id, mmio |-> maps.mmio, pio |-> maps.pio]

RECURSIVE register_resources_physical_routed(_, _, _, _, _, _, _)
\* register_resources as it would be if the IoType::PhysicalMmio arm inserted
\* the range into mmio_bus
register_resources_physical_routed(dev, resources, i, mmio, pio, instance_id, irq_ok) ==
    IF i > Len(resources)
    THEN RegResult("Ok", 0, instance_id, [mmio |-> mmio, pio |-> pio])
    ELSE LET r == resources[i]
         IN  IF r.res = "Address" /\ r.ty = "Pio"
             THEN IF r.addr \in DOMAIN pio
                  THEN RegResult("DeviceOverlap", i, instance_id,
                           rollback(resources, i, mmio,
                                    bus_insert(pio, r.addr, r.size, dev)))
                  ELSE register_resources_physical_routed(dev, resources, i + 1,
                           mmio, bus_insert(pio, r.addr, r.size, dev),
                           instance_id, irq_ok)
             ELSE IF r.res = "Address"
             THEN IF r.addr \in DOMAIN mmio
                  THEN RegResult("DeviceOverlap", i, instance_id,
                           rollback(resources, i,
                                    bus_insert(mmio, r.addr, r.size, dev), pio))
                  ELSE register_resources_physical_routed(dev, resources, i + 1,
                           bus_insert(mmio, r.addr, r.size, dev), pio,
                           instance_id, irq_ok)
             ELSE IF r.res = "Interrupt" /\ ~irq_ok
             THEN RegResult("IrqSrcGrpCreateError", i, instance_id,
                            rollback(resources, i, mmio, pio))
             ELSE register_resources_physical_routed(dev, resources, i + 1, mmio,
                      pio, IF r.res = "Id" THEN r.addr ELSE instance_id, irq_ok)

RECURSIVE register_resources(_, _, _, _, _, _, _)
\* DeviceManager::register_resources : the result, the position it stopped at
\* and the maps it leaves behind.  irq_ok tells whether the calls of
\* InterruptManager::create_group made during this call succeed.
register_resources(dev, resources, i, mmio, pio, instance_id, irq_ok) ==
    IF i > Len(resources)
    THEN RegResult("Ok", 0, instance_id, [mmio |-> mmio, pio |-> pio])
    ELSE LET r == resources[i]
         IN  IF r.res = "Address" /\ r.ty = "Pio"
             THEN IF r.addr \in DOMAIN pio
                  THEN RegResult("DeviceOverlap", i, instance_id,
                           rollback(resources, i, mmio,
                                    bus_insert(pio, r.addr, r.size, dev)))
                  ELSE register_resources(dev, resources, i + 1, mmio,
                           bus_insert(pio, r.addr, r.size, dev), instance_id, irq_ok)
             ELSE IF r.res = "Address" /\ r.ty = "Mmio"
             THEN IF r.addr \in DOMAIN mmio
                  THEN RegResult("DeviceOverlap", i, instance_id,
                           rollback(resources, i,
                                    bus_insert(mmio, r.addr, r.size, dev), pio))
                  ELSE register_resources(dev, resources, i + 1,
                           bus_insert(mmio, r.addr, r.size, dev), pio,
                           instance_id, irq_ok)
             ELSE IF r.res = "Interrupt"
             THEN IF ~irq_ok
                  THEN RegResult("IrqSrcGrpCreateError", i, instance_id,
                           rollback(resources, i, mmio, pio))
                  ELSE register_resources(dev, resources, i + 1, mmio, pio,
                                          instance_id, irq_ok)
             ELSE IF r.res = "Id"
             THEN register_resources(dev, resources, i + 1, mmio, pio, r.addr, irq_ok)
             ELSE register_resources(dev, resources, i + 1, mmio, pio,
                                     instance_id, irq_ok)

\* DeviceManager::device_descriptor / DeviceDescriptor::new
device_descriptor(dev, parent_bus, resources) ==
    [name |-> name(dev), device |-> dev, parent_bus |-> parent_bus,
     resources |-> resources]

\* insert as it would be if it stored the descriptor before reporting the
\* duplicate name
insert_overwriting(descriptor) ==
    [ret |-> IF descriptor.name \in DOMAIN devices THEN "DeviceExist" ELSE "Ok",
     devices |-> MapPut(devices, descriptor.name, descriptor)]

\* DeviceManager::insert : the error, and the registry it leaves behind
insert(descriptor) ==
    IF descriptor.name \in DOMAIN devices
    THEN [ret |-> "DeviceExist", devices |-> devices]
    ELSE [ret |-> "Ok", devices |-> MapPut(devices, descriptor.name, descriptor)]

DmLast(op, dev, ret, idx) == [op |-> op, dev |-> dev, ret |-> ret, idx |-> idx]

NoArgs == [resources |-> << >>, irq_ok |-> TRUE]

NoSnap == [phase |-> 0, devices |-> << >>, mmio_bus |-> << >>, pio_bus |-> << >>]

\* DeviceManager::register_device(dev, parent_bus, resources); the call
\* `dev.set_resources(resources)` between register_resources and insert is
\* commented out, so the device's callback is not invoked
register_device(dev, parent_bus, resources, irq_ok) ==
    LET rr  == register_resources(dev, resources, 1, mmio_bus, pio_bus, 0, irq_ok)
        ins == insert(device_descriptor(dev, parent_bus, resources))
        ret == IF rr.ret # "Ok" THEN rr.ret ELSE ins.ret
    IN  /\ mmio_bus' = rr.mmio
        /\ pio_bus' = rr.pio
        /\ devices' = IF rr.ret = "Ok" THEN ins.devices ELSE devices
        /\ dm_last' = DmLast("register_device", dev, ret, rr.idx)
        /\ set_resources_calls' = 0
        /\ dm_snap' = IF /\ dm_snap.phase = 1
                         /\ dm_last.dev = dev
                         /\ dm_snap.devices[name(dev)] =
                                device_descriptor(dev, parent_bus, resources)
                         /\ irq_ok
                      THEN [dm_snap EXCEPT !.phase = 2]
                      ELSE NoSnap

\* DeviceManager::remove
remove(n) == IF n \in DOMAIN devices THEN MapRemove(devices, n) ELSE devices

\* unregister_device as it would be if the NonExist arm removed the entries
\* that lead to dev
unregister_device_sweeping(dev) ==
    IF name(dev) \in DOMAIN devices
    THEN LET maps == unregister_resources(devices[name(dev)].resources, 1,
                                          mmio_bus, pio_bus)
         IN  /\ devices' = MapRemove(devices, name(dev))
             /\ mmio_bus' = maps.mmio
             /\ pio_bus' = maps.pio
             /\ dm_last' = DmLast("unregister_device", dev, "Ok", 0)
             /\ set_resources_calls' = 0
             /\ dm_snap' = NoSnap
    ELSE /\ dm_last' = DmLast("unregister_device", dev, "DeviceNonExist", 0)
         /\ set_resources_calls' = 0
         /\ dm_snap' = NoSnap
         /\ devices' = devices
         /\ mmio_bus' = [a \in {x \in DOMAIN mmio_bus : mmio_bus[x].dev # dev}
                            |-> mmio_bus[a]]
         /\ pio_bus' = [a \in {x \in DOMAIN pio_bus : pio_bus[x].dev # dev}
                           |-> pio_bus[a]]

\* DeviceManager::unregister_device(dev)
unregister_device(dev) ==
    IF name(dev) \in DOMAIN devices
    THEN LET descriptor == devices[name(dev)]
             maps == unregister_resources(descriptor.resources, 1, mmio_bus, pio_bus)
         IN  /\ devices' = remove(name(dev))
             /\ mmio_bus' = maps.mmio
             /\ pio_bus' = maps.pio
             /\ dm_last' = DmLast("unregister_device", dev, "Ok", 0)
             /\ set_resources_calls' = 0
             /\ dm_snap' = IF /\ dm_last.op = "register_device"
                              /\ dm_last.ret = "Ok"
                              /\ dm_last.dev = dev
                           THEN [phase |-> 1, devices |-> devices,
                                 mmio_bus |-> mmio_bus, pio_bus |-> pio_bus]
                           ELSE NoSnap
    ELSE /\ dm_last' = DmLast("unregister_device", dev, "DeviceNonExist", 0)
         /\ set_resources_calls' = 0
         /\ dm_snap' = NoSnap
         /\ UNCHANGED <<devices, mmio_bus, pio_bus>>

\* Exit dispatch (section 4.5 of the specification): the entry with the
\* greatest start <= address, hit only if address < start + size; NoDev is a
\* routing failure
lookup(bus, address) ==
    LET below == {s \in DOMAIN bus : s <= address}
    IN  IF below = {} THEN NoDev
        ELSE LET s == CHOOSE x \in below : \A y \in below : y <= x
             IN  IF address < s + bus[s].size THEN bus[s].dev ELSE NoDev

(***************************************************************************)
(* Specifications.                                                         *)
(***************************************************************************)
AddrIdle == /\ addr_base = 0 /\ addr_end = 0 /\ addr_alignment = 1
            /\ addr_ranges = (1 :> 0) /\ addr_ret = AUnit /\ addr_op = "new"
            /\ debug_assertions = FALSE /\ addr_new = NoNewCall
IdIdle   == /\ id_start = 0 /\ id_end = 0 /\ id_used = << >>
            /\ id_ret = IUnit /\ id_op = "new" /\ id_live = {}
\* SystemAllocator::new
SysNew   == /\ addr_alloc = << >> /\ id_alloc = << >>
            /\ sys_last = SysLast("new", "", "Ok", 0)
            /\ sys_ids = [n \in SysNames |-> << >>]
DmNew    == /\ devices = << >> /\ mmio_bus = << >> /\ pio_bus = << >>
            /\ dm_last = DmLast("new", NoDev, "Ok", 0) /\ dm_snap = NoSnap
            /\ dm_calls = 0 /\ dm_args = NoArgs /\ set_resources_calls = 0

\* the arguments AddressAllocator::new is called with
AlignSizes == {None, 0, 1, 2, 3, 4}

\* an allocator AddressAllocator::new returned, under either build profile
InitAddr ==
    /\ \E base \in 0 .. MaxBase, size \in 0 .. MaxRegionSize, align \in AlignSizes :
          /\ New(base, size, align) # NoAllocator
          /\ addr_base = New(base, size, align).base
          /\ addr_end = New(base, size, align).end
          /\ addr_alignment = New(base, size, align).alignment
          /\ addr_ranges = New(base, size, align).ranges
    /\ addr_ret = AUnit /\ addr_op = "new" /\ addr_new = NoNewCall
    /\ debug_assertions \in BOOLEAN
    /\ IdIdle /\ DmNew /\ SysNew

Allocate == \E address \in Addrs \cup {None}, size \in 0 .. MaxReqSize :
                allocate(address, size)
Free     == \E address \in Addrs, size \in 0 .. MaxReqSize : free(address, size)

NextAddr == (Allocate \/ Free) /\ UNCHANGED <<id_vars, dm_vars, sys_vars>>
SpecAddr == InitAddr /\ [][NextAddr]_vars

\* the (base, size) of the regions of SpecWide: one of eight addresses that
\* starts and ends at an odd address, one that ends at the last address of
\* the domain
WideRegions == {<<1, 8>>, <<9, 6>>}

\* the sizes allocate and free are called with on these regions
WideReqSizes == {0, 1, 4, 7}

\* AddressAllocator::new(base, size, Some(2)) for a region of WideRegions,
\* under either build profile
InitWide ==
    /\ \E r \in WideRegions :
          /\ New(r[1], r[2], 2) # NoAllocator
          /\ addr_base = New(r[1], r[2], 2).base
          /\ addr_end = New(r[1], r[2], 2).end
          /\ addr_alignment = New(r[1], r[2], 2).alignment
          /\ addr_ranges = New(r[1], r[2], 2).ranges
    /\ addr_ret = AUnit /\ addr_op = "new" /\ addr_new = NoNewCall
    /\ debug_assertions \in BOOLEAN
    /\ IdIdle /\ DmNew /\ SysNew

RECURSIVE first_available_range_leaves_window(_, _, _, _, _)
\* The addresses 0 .. MaxAddr stand for the last AddrModulus addresses of the
\* address domain of the code.  This follows first_available_range's loop in
\* the arithmetic of the code and tells whether the call runs differently
\* there than on the AddrModulus addresses: the placement `address -
\* req_align` lies below address 0, or the gap test `address -
\* prev_end_align >= req_size` has another outcome because the difference
\* wrapped (wrapped tells that prev_end_address was carried past MaxAddr).
first_available_range_leaves_window(keys, i, prev_end_address, wrapped, req_size) ==
    IF i > Len(keys) THEN FALSE
    ELSE LET address        == keys[i]
             size           == addr_ranges[address]
             prev_end_align == align_address(prev_end_address)
         IN  IF prev_end_align = None THEN FALSE
             ELSE IF unchecked_sub(address, prev_end_align) = None THEN FALSE
             ELSE IF \/ wrapped
                     \/ address < prev_end_align
                     \/ address - prev_end_align >= req_size
             THEN \/ unchecked_sub(address, prev_end_align) < req_size
                  \/ address < req_size + addr_alignment - 1
                               - ((req_size + addr_alignment - 1) % addr_alignment)
             ELSE IF unchecked_add(address, size) = None THEN FALSE
             ELSE first_available_range_leaves_window(keys, i + 1,
                      unchecked_add(address, size),
                      address + size > MaxAddr, req_size)

\* allocate(address, size), for the calls that run on the addresses
\* 0 .. MaxAddr as they run on the last addresses of the code's domain
AllocateWide == \E address \in Addrs \cup {None},  size \in WideReqSizes :
                    /\ (address = None /\ size > 0) =>
                          ~first_available_range_leaves_window(
                              SortSet(DOMAIN addr_ranges), 1, addr_base, FALSE, size)
                    /\ allocate(address, size)
FreeWide     == \E address \in Addrs,  size \in WideReqSizes :
                    free(address, size)

NextWide == (AllocateWide \/ FreeWide) /\ UNCHANGED <<id_vars, dm_vars, sys_vars>>
SpecWide == InitWide /\ [][NextWide]_vars

\* an empty allocator whose base and base + size are multiples of its alignment
InitStack ==
    /\ \E base \in 0 .. MaxBase, size \in 1 .. MaxStackSize, align \in AlignSizes :
          /\ New(base, size, align) # NoAllocator
          /\ base % New(base, size, align).alignment = 0
          /\ (base + size) % New(base, size, align).alignment = 0
          /\ addr_base = New(base, size, align).base
          /\ addr_end = New(base, size, align).end
          /\ addr_alignment = New(base, size, align).alignment
          /\ addr_ranges = New(base, size, align).ranges
    /\ addr_ret = AUnit /\ addr_op = "new" /\ addr_new = NoNewCall
    /\ debug_assertions \in BOOLEAN
    /\ IdIdle /\ DmNew /\ SysNew

\* allocate(None, size) : the only call made on these allocators
AllocateAny == \E size \in 0 .. MaxReqSize : allocate(None, size)

NextStack == AllocateAny /\ UNCHANGED <<id_vars, dm_vars, sys_vars>>
SpecStack == InitStack /\ [][NextStack]_vars

\* AddressAllocator::new called, once, with any base, size and alignment of
\* the address domain
Construct ==
    /\ ~addr_new.called
    /\ \E base \in Addrs, size \in Addrs, align_size \in Addrs \cup {None} :
          new(base, size, align_size)

\* no allocator constructed yet
InitNew == AddrIdle /\ IdIdle /\ DmNew /\ SysNew

NextNew == Construct /\ UNCHANGED <<id_vars, dm_vars, sys_vars>>
SpecNew == InitNew /\ [][NextNew]_vars

\* an allocator IdAllocator::new returned
InitId ==
    /\ \E start \in Ids, end \in Ids :
          /\ id_start = IdNew(start, end).start
          /\ id_end = IdNew(start, end).end
          /\ id_used = IdNew(start, end).used
    /\ id_ret = IUnit /\ id_op = "new" /\ id_live = {}
    /\ AddrIdle /\ DmNew /\ SysNew

IdRequests == {NoResource} \cup {SomeResource(n, v) : n \in ResNames, v \in Ids}

IdAllocate == \E resource \in IdRequests : id_allocate(resource)
IdFree     == \E v \in Ids : id_free(v)

NextId == (IdAllocate \/ IdFree) /\ UNCHANGED <<addr_vars, dm_vars, sys_vars>>
SpecId == InitId /\ [][NextId]_vars

\* DeviceManager::new
Init == DmNew /\ AddrIdle /\ IdIdle /\ SysNew

\* the parent bus is stored in the descriptor and never read
ParentBuses == {NoDev}

\* the outcomes of create_group that make a difference to the call
IrqOutcomes(resources) ==
    IF \E i \in 1 .. Len(resources) : resources[i].res = "Interrupt"
    THEN BOOLEAN ELSE {TRUE}

RegisterDevice ==
    /\ dm_calls < MaxCalls
    /\ dm_calls' = dm_calls + 1
    /\ dm_args' = NoArgs
    /\ \E dev \in Devs, parent_bus \in ParentBuses, resources \in ResourceLists :
        \E irq_ok \in IrqOutcomes(resources) :
            register_device(dev, parent_bus, resources, irq_ok)
UnregisterDevice ==
    /\ dm_calls' = dm_calls
    /\ dm_args' = NoArgs
    /\ \E dev \in Devs : unregister_device(dev)

Next == (RegisterDevice \/ UnregisterDevice)
            /\ UNCHANGED <<addr_vars, id_vars, sys_vars>>
Spec == Init /\ [][Next]_vars

\* register_device with its arguments recorded
RegisterDeviceRec ==
    /\ dm_calls < MaxRecCalls
    /\ dm_calls' = dm_calls + 1
    /\ \E dev \in Devs, parent_bus \in ParentBuses, resources \in ResourceLists :
        \E irq_ok \in IrqOutcomes(resources) :
            /\ register_device(dev, parent_bus, resources, irq_ok)
            /\ dm_args' = [resources |-> resources, irq_ok |-> irq_ok]

NextCall == (RegisterDeviceRec \/ UnregisterDevice)
                /\ UNCHANGED <<addr_vars, id_vars, sys_vars>>
SpecCall == Init /\ [][NextCall]_vars

\* SystemAllocator::new
InitSys == SysNew /\ AddrIdle /\ IdIdle /\ DmNew

AddAddrAllocator ==
    \E n \in SysNames, allocator \in SysAddrAllocators : add_addr_allocator(n, allocator)
AddIdAllocator ==
    \E n \in SysNames, allocator \in SysIdPools : add_id_allocator(n, allocator)
AllocateId ==
    \E n \in SysNames :
        /\ Len(sys_ids["id"]) + Len(sys_ids["mmio"]) < MaxSysAllocs
        /\ allocate_id(n)

NextSys == (AddAddrAllocator \/ AddIdAllocator \/ AllocateId)
               /\ UNCHANGED <<addr_vars, id_vars, dm_vars>>
SpecSys == InitSys /\ [][NextSys]_vars

(***************************************************************************)
(* Properties of AddressAllocator (checked under SpecAddr).                *)
(***************************************************************************)
\* the half-open ranges [a, a + m) and [b, b + n) have an address in common
Intersect(a, m, b, n) == m > 0 /\ n > 0 /\ a < b + n /\ b < a + m

\* C1: after any sequence of allocate and free calls, no two ranges recorded
\* in the range map intersect.
C1_NoOverlap ==
    \A a \in DOMAIN addr_ranges, b \in DOMAIN addr_ranges :
        a # b => ~Intersect(a, addr_ranges[a], b, addr_ranges[b])

\* a range other than the end marker is recorded at address with this size
Live(address, size) ==
    size > 0 /\ address \in DOMAIN addr_ranges /\ addr_ranges[address] = size

\* C4: free(addr, size) removes the range exactly when (addr, size) is live,
\* also when it starts at the last managed address; any other call leaves the
\* range map unchanged.
C4_ExactFree ==
    [][\A address \in Addrs, size \in 0 .. MaxReqSize :
          free(address, size) =>
              addr_ranges' = IF Live(address, size)
                             THEN MapRemove(addr_ranges, address)
                             ELSE addr_ranges]_vars

\* every address the last allocate call returned is a multiple of the alignment
ReturnedAligned ==
    (addr_op \in {"allocate_at", "allocate_any"} /\ addr_ret.kind = "Ok")
        => addr_ret.addr % addr_alignment = 0

\* the addresses that are not a multiple of the alignment
Misaligned == {address \in Addrs : address % addr_alignment # 0}

\* C5 as stated: every address allocate returns is a multiple of the
\* alignment, and an exact-placement request at an address that is not is
\* rejected with UnalignedAddress.
C5_Original ==
    [][/\ ReturnedAligned'
       /\ \A address \in Misaligned, size \in 1 .. MaxReqSize :
             allocate(address, size) => addr_ret'.kind = "UnalignedAddress"]_vars

\* C5 amended: every address allocate returns is a multiple of the alignment,
\* and an exact-placement request (size > 0) at an address that is not is
\* rejected: with UnalignedAddress when rounding the address up to the
\* alignment stays in the address domain, with Overflow when it does not.
C5_Aligned ==
    /\ ReturnedAligned
    /\ \A address \in Misaligned, size \in 1 .. MaxReqSize :
          allocate_result(address, size).kind =
              IF address + addr_alignment - (address % addr_alignment) > MaxAddr
              THEN "Overflow" ELSE "UnalignedAddress"

\* a wildcard allocation returned an address next to another live range in
\* an allocator whose alignment is 4
C5_Witness ==
    /\ addr_alignment = 4 /\ addr_op = "allocate_any"
    /\ addr_ret.kind = "Ok" /\ addr_ret.addr = 4
    /\ Cardinality(DOMAIN addr_ranges) = 3

\* [a, a + s) has an address in common with a range of the range map
HitsLive(a, s) ==
    \E b \in DOMAIN addr_ranges : Intersect(a, s, b, addr_ranges[b])

\* what C18 says allocate(Some(a), s) returns
ExactOutcome(a, s) ==
    IF s = 0 THEN AErr("NullRequest")
    ELSE IF a % addr_alignment # 0 THEN AErr("UnalignedAddress")
    ELSE IF a < addr_base \/ a > addr_end THEN AErr("Overflow")
    ELSE IF a + s > addr_end + 1 \/ HitsLive(a, s) THEN AErr("Overlap")
    ELSE AOk(a)

\* the step is an allocate(Some(a), s) call: a success inserted (a, s) for a
\* size s, a failure left the range map unchanged
ExactEffect ==
    addr_op' = "allocate_at" =>
        IF addr_ret'.kind = "Ok"
        THEN \E s \in WideReqSizes \ {0} :
                /\ allocate_result(addr_ret'.addr, s) = addr_ret'
                /\ addr_ranges' = MapPut(addr_ranges, addr_ret'.addr, s)
        ELSE addr_ranges' = addr_ranges

\* a is misaligned and rounding it up to the alignment leaves the address
\* domain: align_address returns None and the call fails with Overflow
RoundingLeavesDomain(a) ==
    a % addr_alignment # 0 /\ a + addr_alignment - (a % addr_alignment) > MaxAddr

\* C18: allocate(Some(a), s) with s > 0 returns a, inserting (a, s), exactly
\* when a is a multiple of the alignment, base <= a <= end, a + s <= base +
\* size and [a, a + s) intersects no live range; otherwise it fails with
\* UnalignedAddress (a misaligned), Overflow (a outside [base, end]) or
\* Overlap; with s = 0 it fails with NullRequest; a failure leaves the range
\* map unchanged.  The requests whose address is misaligned and cannot be
\* rounded up inside the address domain are left out: the statement is
\* about every other request.  (Checked under SpecWide, whose regions and
\* request sizes let a range map hold a range that spans other ranges or
\* that ends past the last address of the domain.)
C18_ExactPlacement ==
    [][/\ \A a \in Addrs, s \in WideReqSizes :
             (allocate(a, s) /\ ~RoundingLeavesDomain(a))
                 => addr_ret' = ExactOutcome(a, s)
       /\ ExactEffect]_vars

\* an address rounded up to the alignment
RoundUpAddr(a) == ((a + addr_alignment - 1) \div addr_alignment) * addr_alignment

RECURSIVE FirstGap(_, _, _, _)
\* what C19 says allocate(None, s) returns: the gaps are scanned in ascending
\* order, gap i reaching from lower (base, or the end of the previous range
\* rounded up to the alignment) to the start keys[i] of the next range or
\* the end marker; the first gap of at least s rounded up to the alignment
\* takes the range, which ends at the gap's upper boundary
FirstGap(keys, i, lower, s) ==
    IF i > Len(keys) THEN AErr("Overflow")
    ELSE IF keys[i] - lower >= RoundUpAddr(s) THEN AOk(keys[i] - RoundUpAddr(s))
    ELSE FirstGap(keys, i + 1, RoundUpAddr(keys[i] + addr_ranges[keys[i]]), s)

WildOutcome(s) == FirstGap(SortSet(DOMAIN addr_ranges), 1, addr_base, s)

\* the step is an allocate(None, s) call: a success inserted (a, s) for a
\* size s, a failure left the range map unchanged
WildEffect ==
    addr_op' = "allocate_any" =>
        IF addr_ret'.kind = "Ok"
        THEN \E s \in 1 .. MaxReqSize :
                /\ allocate_result(None, s) = addr_ret'
                /\ addr_ranges' = MapPut(addr_ranges, addr_ret'.addr, s)
        ELSE addr_ranges' = addr_ranges

\* C19: allocate(None, s) with s > 0 returns, for the first gap in ascending
\* order whose size is at least s rounded up to the alignment, the gap's
\* upper boundary minus s rounded up to the alignment, and inserts the
\* range; it fails with Overflow, leaving the range map unchanged, exactly
\* when there is no such gap.
C19_FirstGapFromTop ==
    [][/\ \A s \in 1 .. MaxReqSize :
             allocate(None, s) => addr_ret' = WildOutcome(s)
       /\ WildEffect]_vars

\* the outcome C19 describes, for allocators whose base + size is a multiple of the
\* alignment
AlignedBoundFirstGap ==
    (addr_end + 1) % addr_alignment = 0 =>
        \A s \in 1 .. MaxReqSize : allocate_result(None, s) = WildOutcome(s)

\* C24: after any sequence of allocate and free calls, for any accepted
\* constructor arguments, every live range lies inside the managed region
\* (base <= start and start + size <= base + size), and no call ends in the
\* panic of a subtraction that goes below zero.
C24_InsideRegion ==
    /\ \A a \in DOMAIN addr_ranges :
          addr_ranges[a] > 0 =>
              addr_base <= a /\ a + addr_ranges[a] <= addr_end + 1
    /\ addr_ret.kind # "Panic"

(***************************************************************************)
(* Properties of AddressAllocator::new (checked under SpecNew).            *)
(***************************************************************************)
\* n is a power of two: positive, and every divisor but 1 is even
PowerOfTwo(n) == n > 0 /\ \A d \in 2 .. n : n % d = 0 => d % 2 = 0

\* C17: new(base, size, alignment) returns None if and only if size = 0,
\* base + size overflows the address domain, or the alignment (4 when
\* omitted) is zero or not a power of two; otherwise it returns an allocator
\* with end = base + size - 1 whose range map holds only the zero-size marker
\* at base + size.
C17_NewValidates ==
    addr_new.called =>
        LET alignment == IF addr_new.align_size = None THEN 4 ELSE addr_new.align_size
            bound     == addr_new.base + addr_new.size
        IN  /\ ~addr_new.some <=>
                  \/ addr_new.size = 0
                  \/ bound > MaxAddr
                  \/ ~PowerOfTwo(alignment)
            /\ addr_new.some =>
                  /\ addr_base = addr_new.base
                  /\ addr_end = bound - 1
                  /\ addr_alignment = alignment
                  /\ addr_ranges = (bound :> 0)

\* new was refused a region that ends one past the last address of the
\* domain, with the default alignment
C17_Witness ==
    /\ addr_new.called /\ ~addr_new.some
    /\ addr_new.base + addr_new.size = MaxAddr + 1
    /\ addr_new.base > 0 /\ addr_new.align_size = None

(***************************************************************************)
(* Wildcard-only allocation (checked under SpecStack).                     *)
(***************************************************************************)
\* the lowest start in the range map: the end marker base + size when empty
Lowest == Min(DOMAIN addr_ranges)

\* size rounded up to the alignment
RoundUp(size) == ((size + addr_alignment - 1) \div addr_alignment) * addr_alignment

\* C11: from an empty allocator whose base and base + size are multiples of
\* the alignment, under wildcard requests only, allocate(None, s) returns the
\* lowest live start (base + size when empty) minus s rounded up to the
\* alignment whenever s addresses are left below it, and Overflow otherwise.
\* In the region [2, 10) with alignment 2 (the documented region
\* [0x1000, 0x11000) with alignment 0x100, scaled), requests of 3, 2 and 1
\* (0x110, 0x100, 0x10) return 6, 4 and 2 (0x10e00, 0x10d00, 0x10c00).
C11_StacksDownward ==
    [][/\ \A s \in 1 .. MaxReqSize :
             allocate(None, s) =>
                 addr_ret' = IF Lowest - addr_base >= s
                             THEN AOk(Lowest - RoundUp(s))
                             ELSE AErr("Overflow")
       /\ (addr_base = 2 /\ addr_end = 9 /\ addr_alignment = 2) =>
             /\ (Lowest = 10 /\ allocate(None, 3)) => addr_ret' = AOk(6)
             /\ (Lowest = 6 /\ allocate(None, 2)) => addr_ret' = AOk(4)
             /\ (Lowest = 4 /\ allocate(None, 1)) => addr_ret' = AOk(2)]_vars

\* the three documented requests were served in the region [2, 10)
C11_Witness ==
    /\ addr_base = 2 /\ addr_end = 9 /\ addr_alignment = 2
    /\ addr_ranges = (2 :> 1 @@ 4 :> 2 @@ 6 :> 3 @@ 10 :> 0)
    /\ addr_ret = AOk(2) /\ addr_op = "allocate_any"

(***************************************************************************)
(* Properties of IdAllocator (checked under SpecId).                       *)
(***************************************************************************)
\* the ids of the used sequence
Used == {id_used[i] : i \in 1 .. Len(id_used)}

\* the ids of [start, end] that are not used
Unused == {v \in id_start .. id_end : v \notin Used}

\* C8: with start <= end, allocate(None) returns the smallest id of
\* [start, end] that is not used, and fails with Overflow exactly when every
\* id of [start, end] is used.
C8_FirstUnused ==
    [][(id_start <= id_end /\ id_allocate(NoResource)) =>
          id_ret' = IF Unused # {} THEN IOk(Min(Unused)) ELSE IErr("Overflow")]_vars

\* over [1, end] with 1 and 3 used, allocate(None) returned 2
C8_Witness ==
    /\ id_start = 1 /\ id_op = "allocate_none"
    /\ id_ret = IOk(2) /\ id_used = <<1, 2, 3>>

\* C25: every id a successful allocate (specific or wildcard) returns lies
\* within [start, end], for any constructor arguments, start > end included.
C25_IdInRange ==
    (id_op \in {"allocate_none", "allocate_some"} /\ id_ret.kind = "Ok")
        => id_start <= id_ret.id /\ id_ret.id <= id_end

\* the requests Some(v) made with an Id resource
SomeIds == {SomeResource(allocator_name, v) : v \in Ids}

\* what C9 expects of allocate(Some(v)), with the error it names for a value
\* outside [start, end]
SomeOutcome(resource, out_of_range) ==
    IF resource.value < id_start \/ resource.value > id_end
    THEN id_ret' = IErr(out_of_range) /\ id_used' = id_used
    ELSE IF resource.value \in Used
    THEN id_ret' = IErr("Duplicated") /\ id_used' = id_used
    ELSE /\ id_ret' = IOk(resource.value)
         /\ {id_used'[i] : i \in 1 .. Len(id_used')} = Used \cup {resource.value}

\* C9 as stated: allocate(Some(v)) fails with Invalid when v lies outside
\* [start, end], with Duplicated when v is used, and otherwise returns v and
\* marks it used; a failure leaves the used sequence unchanged.
C9_Original ==
    [][\A resource \in SomeIds :
          id_allocate(resource) => SomeOutcome(resource, "Invalid")]_vars

\* C9 amended: allocate(Some(v)) fails with OutofScope when v lies outside
\* [start, end], with Duplicated when v is used, and otherwise returns v and
\* marks it used; a failure leaves the used sequence unchanged.  (Invalid is
\* the error for a request whose resource reports another name than the
\* allocator.)
C9_SomeOutcome ==
    [][/\ \A resource \in SomeIds :
             id_allocate(resource) => SomeOutcome(resource, "OutofScope")
       /\ \A v \in Ids :
             id_allocate(SomeResource("irq", v)) =>
                 id_ret' = IErr("Invalid") /\ id_used' = id_used]_vars

\* a request for a value outside [start, end] was refused while ids are used
C9_Witness ==
    /\ id_op = "allocate_some" /\ id_ret.kind = "OutofScope"
    /\ id_start <= id_end /\ Len(id_used) >= 2

\* C10: the used sequence is sorted ascending, duplicate-free and holds
\* exactly the ids returned by successful allocate calls and not freed since
\* (so free(id) removes that id and nothing else).
C10_UsedSorted ==
    /\ \A i \in 1 .. Len(id_used), j \in 1 .. Len(id_used) :
          i < j => id_used[i] < id_used[j]
    /\ Used = id_live

\* a free call left ids 1 and 3 used
C10_Witness ==
    /\ id_op = "free" /\ id_used = <<1, 3>> /\ id_live = {1, 3}

(***************************************************************************)
(* Properties of DeviceManager (checked under Spec).                       *)
(***************************************************************************)
\* the step is a register_device call that returned ret
Registered(ret) ==
    dm_calls' = dm_calls + 1 /\ dm_last'.op = "register_device" /\ dm_last'.ret = ret

\* C2: when register_device fails with Overlap on a dispatch-map collision,
\* the registry and both dispatch maps are as they were before the call (the
\* same keys, each mapped to the same device).
C2_OverlapRollsBack ==
    [][Registered("DeviceOverlap") =>
          devices' = devices /\ mmio_bus' = mmio_bus /\ pio_bus' = pio_bus]_vars

\* the devices the entries of a dispatch map lead to
BusDevs(bus) == {bus[a].dev : a \in DOMAIN bus}

\* the starts of the resources of the list that have this I/O kind
Starts(resources, ty) ==
    {resources[i].addr : i \in {k \in 1 .. Len(resources) :
                                  resources[k].res = "Address" /\ resources[k].ty = ty}}

\* C3: after unregister_device(dev) returns Ok the registry holds no
\* descriptor under dev's name, and neither dispatch map holds an entry that
\* leads to dev or starts at one of the PIO/MMIO ranges of the descriptor.
C3_UnregisterReleases ==
    [][\A dev \in Devs :
          (unregister_device(dev) /\ dm_last'.ret = "Ok") =>
              /\ name(dev) \notin DOMAIN devices'
              /\ dev \notin BusDevs(mmio_bus') \cup BusDevs(pio_bus')
              /\ DOMAIN mmio_bus' \cap Starts(devices[name(dev)].resources, "Mmio") = {}
              /\ DOMAIN pio_bus' \cap Starts(devices[name(dev)].resources, "Pio") = {}]_vars

\* the resources of the list that have this I/O kind
Resources(resources, ty) ==
    {resources[i] : i \in {k \in 1 .. Len(resources) :
                             resources[k].res = "Address" /\ resources[k].ty = ty}}

\* every resource of the list with this I/O kind is a key of the map (start
\* and size) and leads to dev
Routed(bus, resources, ty, dev) ==
    \A r \in Resources(resources, ty) :
        r.addr \in DOMAIN bus /\ bus[r.addr] = BusEntry(r.size, dev)

\* no entry of either dispatch map starts where a PhysicalMmio range starts
PhysicalUnrouted ==
    \A r \in PhysicalMmioRanges :
        r[1] \notin DOMAIN mmio_bus /\ r[1] \notin DOMAIN pio_bus

\* C12: after a successful register_device every PIO resource of the device
\* is a key of the PIO dispatch map that leads to the device, every MMIO
\* resource is a key of the MMIO dispatch map that leads to the device, the
\* call added no other key, and no call ever inserts an entry for a
\* PhysicalMmio resource.
C12_RoutesPioMmioOnly ==
    [][/\ PhysicalUnrouted /\ PhysicalUnrouted'
       /\ Registered("Ok") =>
             LET dev == dm_last'.dev
                 resources == devices'[name(dev)].resources
             IN  /\ Routed(pio_bus', resources, "Pio", dev)
                 /\ Routed(mmio_bus', resources, "Mmio", dev)
                 /\ DOMAIN pio_bus' = DOMAIN pio_bus \cup Starts(resources, "Pio")
                 /\ DOMAIN mmio_bus' = DOMAIN mmio_bus \cup Starts(resources, "Mmio")]_vars

\* a device was registered with a PhysicalMmio and an MMIO resource after a
\* device with a PIO resource
C12_Witness ==
    /\ dm_last.op = "register_device" /\ dm_last.ret = "Ok"
    /\ Resources(devices[name(dm_last.dev)].resources, "PhysicalMmio") # {}
    /\ Resources(devices[name(dm_last.dev)].resources, "Mmio") # {}
    /\ DOMAIN pio_bus # {}

\* C6: when a device is registered with resources R, unregistered and then
\* registered again with R (the interrupt manager creating its groups again),
\* the second registration succeeds and the registry and both dispatch maps
\* are as they were after the first.
C6_RoundTrip ==
    dm_snap.phase = 2 =>
        /\ dm_last.ret = "Ok"
        /\ devices = dm_snap.devices
        /\ mmio_bus = dm_snap.mmio_bus
        /\ pio_bus = dm_snap.pio_bus

\* a device was registered again with a PIO and an MMIO range while the maps
\* hold entries of other calls as well
C6_Witness ==
    /\ dm_snap.phase = 2
    /\ Starts(devices[name(dm_last.dev)].resources, "Mmio") # {}
    /\ Starts(devices[name(dm_last.dev)].resources, "Pio") # {}
    /\ Cardinality(DOMAIN mmio_bus) = 2

\* C7: for a registered MMIO range [s, s + n) with no entry starting at s + n,
\* dispatch of an access at s and at s + n - 1 reaches the device that
\* registered the range, and an access at s + n is a routing failure.
C7_DispatchHits ==
    \A n \in DOMAIN devices :
        \A i \in 1 .. Len(devices[n].resources) :
            LET r == devices[n].resources[i]
            IN  (r.res = "Address" /\ r.ty = "Mmio"
                    /\ (r.addr + r.size) \notin DOMAIN mmio_bus)
                => /\ lookup(mmio_bus, r.addr) = devices[n].device
                   /\ lookup(mmio_bus, r.addr + r.size - 1) = devices[n].device
                   /\ lookup(mmio_bus, r.addr + r.size) = NoDev

(***************************************************************************)
(* Properties of register_device by its arguments (checked under SpecCall). *)
(***************************************************************************)
\* the step is a register_device call whose arguments were recorded
Called == dm_calls' = dm_calls + 1 /\ dm_last'.op = "register_device"

\* two resources of the list with this I/O kind start at the same address, or
\* one starts where an entry of the map starts
Collides(resources, ty, bus) ==
    \/ Starts(resources, ty) \cap DOMAIN bus # {}
    \/ \E i \in 1 .. Len(resources), j \in 1 .. Len(resources) :
          /\ i < j
          /\ resources[i].res = "Address" /\ resources[i].ty = ty
          /\ resources[j].res = "Address" /\ resources[j].ty = ty
          /\ resources[i].addr = resources[j].addr

\* the bus registration of the recorded call went through
BusRegistrationOk ==
    /\ ~Collides(dm_args'.resources, "Pio", pio_bus)
    /\ ~Collides(dm_args'.resources, "Mmio", mmio_bus)
    /\ dm_args'.irq_ok

\* the entries of the call's PIO/MMIO resources are in the dispatch maps
EntriesKept ==
    /\ Routed(pio_bus', dm_args'.resources, "Pio", dm_last'.dev)
    /\ Routed(mmio_bus', dm_args'.resources, "Mmio", dm_last'.dev)

\* C13 as stated: register_device for a device whose name already has a
\* descriptor fails with Exist, leaves the descriptor unchanged and leaves
\* the entries of the call's PIO/MMIO resources in the dispatch maps.
C13_Original ==
    [][(Called /\ name(dm_last'.dev) \in DOMAIN devices) =>
          /\ dm_last'.ret = "DeviceExist"
          /\ devices' = devices
          /\ EntriesKept]_vars

\* C13 amended: register_device for a device whose name already has a
\* descriptor fails and leaves the registry unchanged; it fails with Exist
\* exactly when the bus registration, which comes first, went through, and
\* then the entries of the call's PIO/MMIO resources stay in the dispatch
\* maps; otherwise it fails with the error of the bus registration.
C13_ExistAfterBus ==
    [][(Called /\ name(dm_last'.dev) \in DOMAIN devices) =>
          /\ devices' = devices
          /\ dm_last'.ret \in {"DeviceExist", "DeviceOverlap", "IrqSrcGrpCreateError"}
          /\ dm_last'.ret = "DeviceExist" <=> BusRegistrationOk
          /\ dm_last'.ret = "DeviceExist" =>
                /\ EntriesKept
                /\ DOMAIN pio_bus' = DOMAIN pio_bus \cup Starts(dm_args'.resources, "Pio")
                /\ DOMAIN mmio_bus' = DOMAIN mmio_bus \cup Starts(dm_args'.resources, "Mmio")]_vars

\* a registration under a name that has a descriptor returned Exist and left
\* a PIO and an MMIO entry of the call behind
C13_Witness ==
    /\ dm_last.op = "register_device" /\ dm_last.ret = "DeviceExist"
    /\ Resources(dm_args.resources, "Pio") # {}
    /\ Resources(dm_args.resources, "Mmio") # {}
    /\ Routed(pio_bus, dm_args.resources, "Pio", dm_last.dev)
    /\ Routed(mmio_bus, dm_args.resources, "Mmio", dm_last.dev)
    /\ devices[name(dm_last.dev)].resources # dm_args.resources

\* a resource of the list with this I/O kind intersects, as a half-open
\* range, a range of the map
IntersectsEntry(resources, ty, bus) ==
    \E r \in Resources(resources, ty), a \in DOMAIN bus :
        Intersect(r.addr, r.size, a, bus[a].size)

\* the ranges of the map are pairwise disjoint
DisjointEntries(bus) ==
    \A a \in DOMAIN bus, b \in DOMAIN bus :
        a # b => ~Intersect(a, bus[a].size, b, bus[b].size)

\* C20: register_device (its interrupt groups created) fails with Overlap
\* whenever a PIO (MMIO) range of the call intersects a range of the PIO
\* (MMIO) dispatch map, with the same start or not; in every reachable state
\* the ranges of one dispatch map are pairwise disjoint.
C20_IntersectionRejected ==
    /\ [](DisjointEntries(pio_bus) /\ DisjointEntries(mmio_bus))
    /\ [][(/\ Called
           /\ dm_args'.irq_ok
           /\ \/ IntersectsEntry(dm_args'.resources, "Pio", pio_bus)
              \/ IntersectsEntry(dm_args'.resources, "Mmio", mmio_bus))
          => dm_last'.ret = "DeviceOverlap"]_vars

\* the step is an unregister_device call
Unregistered == dm_calls' = dm_calls /\ dm_last'.op = "unregister_device"

\* C14: unregister_device for a device whose name has no descriptor returns
\* NonExist and leaves the registry and both dispatch maps unchanged.
C14_NonExistNoEffect ==
    [][(Unregistered /\ name(dm_last'.dev) \notin DOMAIN devices) =>
          /\ dm_last'.ret = "DeviceNonExist"
          /\ devices' = devices
          /\ mmio_bus' = mmio_bus
          /\ pio_bus' = pio_bus]_vars

\* unregister_device returned NonExist for a device that a dispatch entry
\* leads to, while another name has a descriptor
C14_Witness ==
    /\ dm_last.op = "unregister_device" /\ dm_last.ret = "DeviceNonExist"
    /\ dm_last.dev \in BusDevs(pio_bus) \cup BusDevs(mmio_bus)
    /\ devices # << >>

(***************************************************************************)
(* Properties of SystemAllocator (checked under SpecSys).                  *)
(***************************************************************************)
\* the ids of a sequence
Elems(seq) == {seq[i] : i \in 1 .. Len(seq)}

\* the ids of the pool's [start, end] that it has not recorded as used
PoolUnused(pool) == {v \in pool.start .. pool.end : v \notin Elems(pool.used)}

\* C15: allocate_id under a name that an id pool is registered under returns
\* the id that pool's wildcard allocate returns (its least unused id) and
\* records it as used in the pool, so the id lies in the pool's [start, end]
\* and differs from the ids returned for the name before; the pools under
\* other names and the address allocators are unchanged.
C15_ServedByNamedPool ==
    [][\A n \in SysNames :
          (allocate_id(n) /\ n \in DOMAIN id_alloc) =>
              /\ PoolUnused(id_alloc[n]) # {}
                    => sys_last'.id = Min(PoolUnused(id_alloc[n]))
              /\ sys_last'.id \in id_alloc[n].start .. id_alloc[n].end
              /\ sys_last'.id \in Elems(id_alloc'[n].used)
              /\ sys_last'.id \notin Elems(sys_ids[n])
              /\ \A m \in DOMAIN id_alloc \ {n} : id_alloc'[m] = id_alloc[m]
              /\ addr_alloc' = addr_alloc]_vars

\* C16: add_addr_allocator(name, a) and add_id_allocator(name, a) fail with
\* Exist when the name is bound in the registry they add to, and then both
\* registries are unchanged; otherwise they return Ok, the name becomes bound
\* to a in that registry and no other binding of either registry changes.
C16_AddOnce ==
    [][/\ \A n \in SysNames, a \in SysAddrAllocators :
             add_addr_allocator(n, a) =>
                 /\ id_alloc' = id_alloc
                 /\ IF n \in DOMAIN addr_alloc
                    THEN sys_last'.ret = "Exist" /\ addr_alloc' = addr_alloc
                    ELSE /\ sys_last'.ret = "Ok"
                         /\ DOMAIN addr_alloc' = DOMAIN addr_alloc \cup {n}
                         /\ addr_alloc'[n] = a
                         /\ \A m \in DOMAIN addr_alloc : addr_alloc'[m] = addr_alloc[m]
       /\ \A n \in SysNames, a \in SysIdPools :
             add_id_allocator(n, a) =>
                 /\ addr_alloc' = addr_alloc
                 /\ IF n \in DOMAIN id_alloc
                    THEN sys_last'.ret = "Exist" /\ id_alloc' = id_alloc
                    ELSE /\ sys_last'.ret = "Ok"
                         /\ DOMAIN id_alloc' = DOMAIN id_alloc \cup {n}
                         /\ id_alloc'[n] = a
                         /\ \A m \in DOMAIN id_alloc : id_alloc'[m] = id_alloc[m]]_vars

\* add_addr_allocator returned Exist for a name that both registries bind,
\* while each registry binds another name as well
C16_Witness ==
    /\ sys_last.op = "add_addr_allocator" /\ sys_last.ret = "Exist"
    /\ sys_last.name \in DOMAIN id_alloc
    /\ DOMAIN addr_alloc = SysNames /\ DOMAIN id_alloc = SysNames

\* C21: when create_group fails for the interrupt request at position i of
\* the resource list, register_device fails, both dispatch maps are as they
\* were before the call (the entries of the positions before i are removed
\* again) and the registry is unchanged.
C21_IrqFailureRollsBack ==
    [][(Called /\ dm_last'.ret = "IrqSrcGrpCreateError") =>
          /\ ~dm_args'.irq_ok
          /\ dm_args'.resources[dm_last'.idx].res = "Interrupt"
          /\ mmio_bus' = mmio_bus
          /\ pio_bus' = pio_bus
          /\ devices' = devices]_vars

\* create_group failed at position 2, after an MMIO entry of the call had
\* been inserted next to the entries of another device
C21_Witness ==
    /\ dm_last.op = "register_device" /\ dm_last.ret = "IrqSrcGrpCreateError"
    /\ dm_last.idx = 2
    /\ dm_args.resources[1].res = "Address" /\ dm_args.resources[1].ty = "Mmio"
    /\ mmio_bus # << >> /\ devices # << >>

\* C22: a successful register_device invokes the device's set_resources
\* callback exactly once (between the insertion of its dispatch entries and
\* the recording of its descriptor), and a failed one does not invoke it.
C22_SetResourcesOnce ==
    [][Called =>
          set_resources_calls' = IF dm_last'.ret = "Ok" THEN 1 ELSE 0]_vars

\* the resource list an unregister_device step works on
Detached == devices[name(dm_last'.dev)].resources

\* C23: a register_device call without MMIO (PIO) resources, rolled back or
\* not, and an unregister_device call for a descriptor without MMIO (PIO)
\* resources leave the MMIO (PIO) map unchanged, and register_device reports
\* a collision only when a range of the call collides in the map of its own
\* I/O kind: a (start, size) range that is a PIO entry can become an MMIO
\* entry of another device and vice versa.
C23_MapsIndependent ==
    [][/\ Called =>
             /\ Resources(dm_args'.resources, "Mmio") = {} => mmio_bus' = mmio_bus
             /\ Resources(dm_args'.resources, "Pio") = {} => pio_bus' = pio_bus
             /\ dm_last'.ret = "DeviceOverlap" =>
                   \/ Collides(dm_args'.resources, "Pio", pio_bus)
                   \/ Collides(dm_args'.resources, "Mmio", mmio_bus)
       /\ (Unregistered /\ dm_last'.ret = "Ok") =>
             /\ Resources(Detached, "Mmio") = {} => mmio_bus' = mmio_bus
             /\ Resources(Detached, "Pio") = {} => pio_bus' = pio_bus]_vars

\* the range (0, 1) is a PIO entry of one device and an MMIO entry of
\* another, both registered successfully
C23_Witness ==
    /\ dm_last.op = "register_device" /\ dm_last.ret = "Ok"
    /\ 0 \in DOMAIN pio_bus /\ 0 \in DOMAIN mmio_bus
    /\ pio_bus[0].size = 1 /\ mmio_bus[0].size = 1
    /\ pio_bus[0].dev # mmio_bus[0].dev
    /\ DOMAIN devices = {"a", "b"}

\* every entry of the map leads to a device whose descriptor is in the
\* registry and lists the entry's (start, size) range with this I/O kind
Attached(bus, ty) ==
    \A a \in DOMAIN bus :
        /\ name(bus[a].dev) \in DOMAIN devices
        /\ devices[name(bus[a].dev)].device = bus[a].dev
        /\ \E r \in Resources(devices[name(bus[a].dev)].resources, ty) :
              r.addr = a /\ r.size = bus[a].size

\* C26: after any sequence of register_device and unregister_device calls,
\* successful or failed, every entry of the PIO or MMIO dispatch map leads to
\* a device that has a descriptor in the registry whose resource list
\* contains that (start, size) range with that I/O kind.
C26_EntriesAttached ==
    Attached(pio_bus, "Pio") /\ Attached(mmio_bus, "Mmio")

\* the entries of the map that lead to another device than dev are the same
\* in after as in before
OthersKept(before, after, dev) ==
    \A a \in DOMAIN before :
        before[a].dev # dev => a \in DOMAIN after /\ after[a] = before[a]

\* C27: unregister_device(dev) removes only what belongs to dev: the
\* descriptors and the dispatch entries of every other device object are
\* unchanged by the call, also when dev was never registered and another
\* registered device reports the same name.
C27_RemovesOnlyOwn ==
    [][Unregistered =>
          /\ \A n \in DOMAIN devices :
                devices[n].device # dm_last'.dev =>
                    n \in DOMAIN devices' /\ devices'[n] = devices[n]
          /\ OthersKept(mmio_bus, mmio_bus', dm_last'.dev)
          /\ OthersKept(pio_bus, pio_bus', dm_last'.dev)]_vars

====
